---- MODULE Spec2Model ----
(***************************************************************************)
(* Model of the client scripts of the repository:                          *)
(*   search_grant_links_google.py  - the grant-search batch run            *)
(*   test_continuous_operation.py  - the continuous-operation run          *)
(* Three specifications share the module:                                  *)
(*   SpecNorm  - clean_grant_name applied to bounded raw query strings      *)
(*   SpecGrant - main() of the grant-search script                          *)
(*   SpecCont  - test_continuous_operation() and the __main__ block         *)
(* Python strings are modelled as sequences of one-character strings.      *)
(***************************************************************************)
EXTENDS Integers, Sequences, FiniteSets, TLC

VARIABLES
    \* ---- clean_grant_name driver
    n_pc, n_raw, n_out,
    \* ---- grant-search batch run (main)
    g_pc,          \* position in main()
    input_state,   \* "missing" | "unreadable" | "ok" : the input file
    input,         \* the records the DictReader yields (value of 'grant_name')
    idx,           \* records consumed so far
    grant_name, search_query, all_links,
    query_count,
    best, full,    \* the two output files: [exists, disk, buf, opened]
    g_err,         \* exception that left main(), "none" if none
    orig_best, orig_full,  \* history: the output files as they were at start
    log,           \* history: one entry per backend call
    \* ---- continuous-operation run
    c_pc, num_searches, i, stats, success_rate, exit_code, verdict, c_err,
    h_last,        \* history: the backend's answer to the last item
    h_received,    \* history: items whose request returned a response
    h_handler,     \* history: items that ended in an except handler
    h_pairs        \* history: per engine, unresponsive entries naming it in
                   \*          the items handled without an exception

vars == <<n_pc, n_raw, n_out,
          g_pc, input_state, input, idx, grant_name, search_query, all_links,
          query_count, best, full, g_err, orig_best, orig_full, log,
          c_pc, num_searches, i, stats, success_rate, exit_code, verdict, c_err,
          h_last, h_received, h_handler, h_pairs>>

n_vars == <<n_pc, n_raw, n_out>>
g_vars == <<g_pc, input_state, input, idx, grant_name, search_query, all_links,
            query_count, best, full, g_err, orig_best, orig_full, log>>
c_vars == <<c_pc, num_searches, i, stats, success_rate, exit_code, verdict, c_err,
            h_last, h_received, h_handler, h_pairs>>

(***************************************************************************)
(* Bounds                                                                  *)
(***************************************************************************)
MaxChunks == 4      \* raw query strings are built from at most this many chunks
MaxRecords == 2     \* input records of a batch run
MaxSearches == 5    \* num_searches of a continuous-operation run

(***************************************************************************)
(* Python str operations                                                   *)
(***************************************************************************)
SP == " "
EmptyStr == <<>>   \* ''
GRANT == <<"g", "r", "a", "n", "t">>

LowerChar(c) ==
    CASE c = "G" -> "g" [] c = "R" -> "r" [] c = "A" -> "a"
      [] c = "N" -> "n" [] c = "T" -> "t" [] c = "M" -> "m"
      [] c = "E" -> "e" [] OTHER -> c

StrLower(s) == [k \in 1..Len(s) |-> LowerChar(s[k])]

IsSpace(c) == c \in {" ", "\t"}

RECURSIVE LStrip(_)
LStrip(s) == IF s # <<>> /\ IsSpace(s[1]) THEN LStrip(Tail(s)) ELSE s

RECURSIVE RStrip(_)
RStrip(s) ==
    IF s # <<>> /\ IsSpace(s[Len(s)]) THEN RStrip(SubSeq(s, 1, Len(s) - 1)) ELSE s

Strip(s) == RStrip(LStrip(s))

EndsWith(s, t) == Len(s) >= Len(t) /\ SubSeq(s, Len(s) - Len(t) + 1, Len(s)) = t

Contains(s, t) == \E k \in 1..(Len(s) - Len(t) + 1) : SubSeq(s, k, k + Len(t) - 1) = t

(***************************************************************************)
(* clean_grant_name                                                        *)
(***************************************************************************)
clean_grant_name(raw) ==
    LET g == Strip(raw) IN
    IF EndsWith(StrLower(g), GRANT) \/ Contains(StrLower(g), <<SP>> \o GRANT \o <<SP>>)
    THEN g
    ELSE g \o <<SP>> \o GRANT

(***************************************************************************)
(* Idle values: a specification leaves the other scripts' variables fixed. *)
(***************************************************************************)
NormIdle == n_pc = "idle" /\ n_raw = <<>> /\ n_out = <<>>

\* a file: whether it exists, its rows on disk, the rows buffered by the writer,
\* and whether this run has opened it
NoFile == [exists |-> FALSE, disk |-> <<>>, buf |-> <<>>, opened |-> FALSE]

GrantIdle ==
    /\ g_pc = "idle" /\ input_state = "ok" /\ input = <<>> /\ idx = 0
    /\ grant_name = <<>> /\ search_query = <<>> /\ all_links = <<>>
    /\ query_count = 0 /\ best = NoFile /\ full = NoFile /\ g_err = "none"
    /\ orig_best = NoFile /\ orig_full = NoFile /\ log = <<>>

ContIdle ==
    /\ c_pc = "idle" /\ num_searches = 0 /\ i = 0 /\ stats = <<>>
    /\ success_rate = <<>> /\ exit_code = -1 /\ verdict = "none" /\ c_err = "none"
    /\ h_last = <<>> /\ h_received = 0 /\ h_handler = 0 /\ h_pairs = <<>>

(***************************************************************************)
(* SpecNorm: clean_grant_name on bounded raw strings                       *)
(***************************************************************************)
Chunks == { <<SP>>, GRANT, <<"G", "r", "a", "n", "t">>, <<"x">>, <<"s">> }

RECURSIVE StringsOf(_)
StringsOf(n) ==
    IF n = 0 THEN { <<>> }
    ELSE LET shorter == StringsOf(n - 1) IN
         shorter \cup { s \o c : s \in shorter, c \in Chunks }

RawQueries == StringsOf(MaxChunks)

InitNorm ==
    /\ n_pc = "raw" /\ n_raw \in RawQueries /\ n_out = <<>>
    /\ GrantIdle /\ ContIdle

\* search_query = clean_grant_name(grant_name)
Normalize ==
    /\ n_pc = "raw"
    /\ n_out' = clean_grant_name(n_raw)
    /\ n_pc' = "normalized"
    /\ UNCHANGED <<n_raw, g_vars, c_vars>>

NextNorm == Normalize

SpecNorm == InitNorm /\ [][NextNorm]_vars

\* Number of positions of s at which t occurs.
CountOcc(s, t) ==
    Cardinality({ k \in 1..(Len(s) - Len(t) + 1) : SubSeq(s, k, k + Len(t) - 1) = t })

\* t occurs in s as a word of its own: bounded by whitespace or the ends of s.
StandaloneWord(s, t) ==
    \E k \in 1..(Len(s) - Len(t) + 1) :
        /\ SubSeq(s, k, k + Len(t) - 1) = t
        /\ (k = 1 \/ IsSpace(s[k - 1]))
        /\ (k + Len(t) - 1 = Len(s) \/ IsSpace(s[k + Len(t)]))

TermPresent(g) == EndsWith(StrLower(g), GRANT) \/ StandaloneWord(StrLower(g), GRANT)

\* C6: the normalized query contains the term 'grant' exactly once; when the
\* term is already present (case-insensitively, as a suffix or as a standalone
\* word) the trimmed text is returned unchanged, otherwise ' grant' is appended.
C6_TermExactlyOnce ==
    n_pc = "normalized" =>
        /\ CountOcc(StrLower(n_out), GRANT) = 1
        /\ TermPresent(Strip(n_raw)) => n_out = Strip(n_raw)
        /\ ~TermPresent(Strip(n_raw)) => n_out = Strip(n_raw) \o <<SP>> \o GRANT

(***************************************************************************)
(* SpecGrant: main() of search_grant_links_google.py                       *)
(***************************************************************************)
GRANT_NAME == <<"g", "r", "a", "n", "t", "_", "n", "a", "m", "e">>
SEARCH_QUERY == <<"s", "e", "a", "r", "c", "h", "_", "q", "u", "e", "r", "y">>
LINK == <<"l", "i", "n", "k">>
HeaderRow == <<GRANT_NAME, SEARCH_QUERY, LINK>>

\* row['grant_name'] of a row shorter than the header: DictReader's restval
NoneVal == <<"None">>

\* The values row.get('grant_name', '') can take for the records of the input.
GrantNames ==
    { <<>>,                                             \* empty cell / no such column
      <<SP, SP>>,                                       \* blank
      GRANT_NAME,                                       \* repeated header
      <<SP, "G", "R", "A", "N", "T", "_", "N", "A", "M", "E">>,
      <<"x">>,
      <<"x", SP, "G", "r", "a", "n", "t", SP>>,
      NoneVal }

RECURSIVE SeqsUpTo(_, _)
SeqsUpTo(S, n) ==
    IF n = 0 THEN { <<>> }
    ELSE LET shorter == SeqsUpTo(S, n - 1) IN
         shorter \cup { Append(q, e) : q \in shorter, e \in S }

\* ---- the backend's answer to one requests.get
LinkA == <<"a">>
LinkB == <<"b">>
ItemA == [isdict |-> TRUE, haslink |-> TRUE, link |-> LinkA]
ItemB == [isdict |-> TRUE, haslink |-> TRUE, link |-> LinkB]
ItemEmptyLink == [isdict |-> TRUE, haslink |-> TRUE, link |-> EmptyStr]
ItemNoLink == [isdict |-> TRUE, haslink |-> FALSE, link |-> EmptyStr]
ItemNotDict == [isdict |-> FALSE, haslink |-> FALSE, link |-> EmptyStr]

Resp(neterr, status, json_ok, isdict, items) ==
    [neterr |-> neterr, status |-> status, json_ok |-> json_ok,
     isdict |-> isdict, items |-> items]

GoogleResponses ==
    { Resp(TRUE, 0, FALSE, FALSE, <<>>),                 \* requests.get raises
      Resp(FALSE, 500, FALSE, FALSE, <<>>),              \* API error status
      Resp(FALSE, 200, FALSE, FALSE, <<>>),              \* body is not JSON
      Resp(FALSE, 200, TRUE, TRUE, <<>>),                \* no 'items' / empty
      Resp(FALSE, 200, TRUE, TRUE, <<ItemA>>),
      Resp(FALSE, 200, TRUE, TRUE, <<ItemEmptyLink, ItemB, ItemNoLink, ItemA>>),
      Resp(FALSE, 200, TRUE, TRUE, <<ItemEmptyLink>>),
      Resp(FALSE, 200, TRUE, TRUE, <<ItemA, ItemNotDict>>) }

\* the list comprehension without its 'if link' filter
SelectAll(links) == links

RECURSIVE SelectNonEmpty(_)
SelectNonEmpty(links) ==
    IF links = <<>> THEN <<>>
    ELSE IF links[1] # EmptyStr THEN <<links[1]>> \o SelectNonEmpty(Tail(links))
         ELSE SelectNonEmpty(Tail(links))

\* item.get('link', '') for each item
ItemLinks(items) ==
    [k \in 1..Len(items) |-> IF items[k].haslink THEN items[k].link ELSE EmptyStr]

\* An exception is raised inside the try block of search_grant_google.
SearchRaises(resp) ==
    \/ resp.neterr
    \/ resp.status = 200 /\ ~resp.json_ok
    \/ resp.status = 200 /\ resp.json_ok /\ ~resp.isdict
    \/ resp.status = 200 /\ resp.json_ok /\ resp.isdict
          /\ \E k \in 1..Len(resp.items) : ~resp.items[k].isdict

\* The body of the try block, when nothing raises.
SearchBody(resp) ==
    IF resp.status = 200 /\ resp.items # <<>>
    THEN SelectNonEmpty(ItemLinks(resp.items))
    ELSE <<>>

\* search_grant_google without its except clause
search_grant_google_no_except(resp) ==
    IF SearchRaises(resp)
    THEN [raised |-> TRUE, links |-> <<>>]
    ELSE [raised |-> FALSE, links |-> SearchBody(resp)]

\* search_grant_google: [raised, links]; raised = an exception leaves the call
search_grant_google(resp) ==
    IF SearchRaises(resp)
    THEN [raised |-> FALSE, links |-> <<>>]
    ELSE [raised |-> FALSE, links |-> SearchBody(resp)]

\* ---- files
OldRow == << <<"o">>, <<"o">>, <<"o">> >>
OldFile == [exists |-> TRUE, disk |-> <<HeaderRow, OldRow>>, buf |-> <<>>, opened |-> FALSE]

OpenW(f) == [exists |-> TRUE, disk |-> <<>>, buf |-> <<>>, opened |-> TRUE]
WriteRow(f, row) == [f EXCEPT !.buf = Append(@, row)]
\* a flush that leaves the rows in the buffer
FlushNothing(f) == f

Flush(f) == [f EXCEPT !.disk = @ \o f.buf, !.buf = <<>>]
Close(f) == Flush(f)
\* the process is killed: what was not flushed is lost
Lose(f) == [f EXCEPT !.buf = <<>>]

\* the skip test without .lower()
SkipRecordCaseSensitive(name) == name = EmptyStr \/ name = GRANT_NAME

\* if not grant_name or grant_name.lower() == 'grant_name'
SkipRecord(name) == name = EmptyStr \/ StrLower(name) = GRANT_NAME

InitGrant ==
    /\ g_pc = "start"
    /\ input_state \in {"missing", "unreadable", "ok"}
    /\ input \in SeqsUpTo(GrantNames, MaxRecords)
    /\ input_state # "ok" => input = <<>>
    /\ idx = 0
    /\ grant_name = <<>> /\ search_query = <<>> /\ all_links = <<>>
    /\ query_count = 0
    /\ best \in {NoFile, OldFile}
    /\ full = best
    /\ orig_best = best /\ orig_full = full
    /\ g_err = "none"
    /\ log = <<>>
    /\ NormIdle /\ ContIdle

g_locals == <<grant_name, search_query, all_links, query_count>>
g_const == <<input_state, input, orig_best, orig_full>>

\* if not Path(input_file).exists(): return
CheckInput ==
    /\ g_pc = "start"
    /\ g_pc' = IF input_state = "missing" THEN "returned" ELSE "open_out"
    /\ UNCHANGED <<g_const, idx, g_locals, best, full, g_err, log, n_vars, c_vars>>

\* open both outputs with 'w' and write the header rows
OpenOutputs ==
    /\ g_pc = "open_out"
    /\ best' = WriteRow(OpenW(best), HeaderRow)
    /\ full' = WriteRow(OpenW(full), HeaderRow)
    /\ g_pc' = "open_in"
    /\ UNCHANGED <<g_const, idx, g_locals, g_err, log, n_vars, c_vars>>

\* open(input_file, 'r'): an OSError leaves main through the with block,
\* which closes both outputs
OpenInput ==
    /\ g_pc = "open_in"
    /\ IF input_state = "unreadable"
       THEN /\ g_err' = "OSError"
            /\ g_pc' = "crashed"
            /\ best' = Close(best) /\ full' = Close(full)
       ELSE /\ g_pc' = "loop"
            /\ UNCHANGED <<g_err, best, full>>
    /\ UNCHANGED <<g_const, idx, g_locals, log, n_vars, c_vars>>

\* one step of the for loop up to the call of search_grant_google
ReadRecord ==
    /\ g_pc = "loop"
    /\ idx < Len(input)
    /\ idx' = idx + 1
    /\ LET cell == input[idx + 1] IN
       IF cell = NoneVal
       THEN \* None.strip(): AttributeError
            /\ g_err' = "AttributeError"
            /\ g_pc' = "crashed"
            /\ best' = Close(best) /\ full' = Close(full)
            /\ UNCHANGED <<grant_name, search_query>>
       ELSE /\ grant_name' = Strip(cell)
            /\ IF SkipRecord(Strip(cell))
               THEN g_pc' = "loop" /\ UNCHANGED search_query
               ELSE g_pc' = "search" /\ search_query' = clean_grant_name(Strip(cell))
            /\ UNCHANGED <<g_err, best, full>>
    /\ UNCHANGED <<g_const, all_links, query_count, log, n_vars, c_vars>>

\* all_links = search_grant_google(search_query); query_count += 1
Search(resp) ==
    /\ g_pc = "search"
    /\ LET r == search_grant_google(resp) IN
       IF r.raised
       THEN /\ g_err' = "SearchError"
            /\ g_pc' = "crashed"
            /\ best' = Close(best) /\ full' = Close(full)
            /\ UNCHANGED <<all_links, query_count>>
       ELSE /\ all_links' = r.links
            /\ query_count' = query_count + 1
            /\ g_pc' = "write_best"
            /\ UNCHANGED <<g_err, best, full>>
    /\ log' = Append(log, [rec |-> idx, name |-> grant_name, query |-> search_query,
                           resp |-> resp])
    /\ UNCHANGED <<g_const, idx, grant_name, search_query, n_vars, c_vars>>

BestRow(name, query, links) ==
    <<name, query, IF links # <<>> THEN links[1] ELSE EmptyStr>>

FullRows(name, query, links) == [k \in 1..Len(links) |-> <<name, query, links[k]>>]

\* writer.writerow([grant_name, search_query, all_links[0] or ''])
WriteBest ==
    /\ g_pc = "write_best"
    /\ best' = WriteRow(best, BestRow(grant_name, search_query, all_links))
    /\ g_pc' = "flush_best"
    /\ UNCHANGED <<g_const, idx, g_locals, full, g_err, log, n_vars, c_vars>>

\* out_csv.flush()
FlushBest ==
    /\ g_pc = "flush_best"
    /\ best' = Flush(best)
    /\ g_pc' = IF all_links # <<>> THEN "write_full" ELSE "loop"
    /\ UNCHANGED <<g_const, idx, g_locals, full, g_err, log, n_vars, c_vars>>

\* for link in all_links: writer_full.writerow(...)
WriteFull ==
    /\ g_pc = "write_full"
    /\ full' = [full EXCEPT !.buf = @ \o FullRows(grant_name, search_query, all_links)]
    /\ g_pc' = "flush_full"
    /\ UNCHANGED <<g_const, idx, g_locals, best, g_err, log, n_vars, c_vars>>

\* out_csv_full.flush()
FlushFull ==
    /\ g_pc = "flush_full"
    /\ full' = Flush(full)
    /\ g_pc' = "loop"
    /\ UNCHANGED <<g_const, idx, g_locals, best, g_err, log, n_vars, c_vars>>

\* end of the input: the with blocks close the files, the summary is printed
Finish ==
    /\ g_pc = "loop"
    /\ idx = Len(input)
    /\ best' = Close(best) /\ full' = Close(full)
    /\ g_pc' = "done"
    /\ UNCHANGED <<g_const, idx, g_locals, g_err, log, n_vars, c_vars>>

GrantRunning ==
    g_pc \in {"open_out", "open_in", "loop", "search", "write_best", "flush_best",
              "write_full", "flush_full"}

\* abrupt termination of the process: nothing is closed or flushed
Kill ==
    /\ GrantRunning
    /\ g_pc' = "killed"
    /\ best' = Lose(best) /\ full' = Lose(full)
    /\ UNCHANGED <<g_const, idx, g_locals, g_err, log, n_vars, c_vars>>

NextGrant ==
    \/ CheckInput
    \/ OpenOutputs
    \/ OpenInput
    \/ ReadRecord
    \/ \E resp \in GoogleResponses : Search(resp)
    \/ WriteBest
    \/ FlushBest
    \/ WriteFull
    \/ FlushFull
    \/ Finish
    \/ Kill

SpecGrant == InitGrant /\ [][NextGrant]_vars

(***************************************************************************)
(* Properties of the batch run                                             *)
(***************************************************************************)
IsPrefix(a, b) == Len(a) <= Len(b) /\ SubSeq(b, 1, Len(a)) = a
AllButLast(q) == IF q = <<>> THEN <<>> ELSE SubSeq(q, 1, Len(q) - 1)
DataRows(rows) == IF rows = <<>> THEN <<>> ELSE Tail(rows)
Written(f) == f.disk \o f.buf

\* A record is not skipped: its trimmed grant_name is non-empty and differs,
\* case-insensitively, from 'grant_name'.
NonSkipped(cell) ==
    /\ cell # NoneVal
    /\ Strip(cell) # EmptyStr
    /\ StrLower(Strip(cell)) # GRANT_NAME

NonSkippedCount(cells) == Cardinality({ k \in 1..Len(cells) : NonSkipped(cells[k]) })

\* The backend call failed: network error, non-200 status, or an exception
\* while parsing the body or extracting the links.
BackendFailed(resp) ==
    \/ resp.neterr
    \/ resp.status # 200
    \/ ~resp.json_ok
    \/ ~resp.isdict
    \/ \E k \in 1..Len(resp.items) : ~resp.items[k].isdict

RECURSIVE NonEmptyLinks(_)
NonEmptyLinks(items) ==
    IF items = <<>> THEN <<>>
    ELSE LET it == items[1] IN
         (IF it.haslink /\ it.link # EmptyStr THEN <<it.link>> ELSE <<>>)
             \o NonEmptyLinks(Tail(items))

\* The non-empty links extracted for a record, in extraction order.
ExtractedLinks(resp) == IF BackendFailed(resp) THEN <<>> ELSE NonEmptyLinks(resp.items)

RECURSIVE SumLinks(_)
SumLinks(entries) ==
    IF entries = <<>> THEN 0
    ELSE Len(ExtractedLinks(entries[1].resp)) + SumLinks(Tail(entries))

RECURSIVE ExpectedFull(_)
ExpectedFull(entries) ==
    IF entries = <<>> THEN <<>>
    ELSE LET e == entries[1] IN
         [k \in 1..Len(ExtractedLinks(e.resp)) |->
             <<e.name, e.query, ExtractedLinks(e.resp)[k]>>]
             \o ExpectedFull(Tail(entries))

ExpectedBest(entries) ==
    [k \in 1..Len(entries) |->
        LET l == ExtractedLinks(entries[k].resp) IN
        <<entries[k].name, entries[k].query, IF l = <<>> THEN EmptyStr ELSE l[1]>>]

AtRecordBoundary == g_pc \in {"loop", "done"}

\* C1: after the records read so far have been processed, the best-result file
\* holds exactly one data row per non-skipped record and none for a skipped one.
C1_BestRowPerRecord ==
    AtRecordBoundary =>
        /\ Len(DataRows(Written(best))) = NonSkippedCount(SubSeq(input, 1, idx))
        /\ g_pc = "done" => Len(DataRows(best.disk)) = NonSkippedCount(input)

C1_Witness ==
    /\ g_pc = "done" /\ Len(input) = 2
    /\ ~NonSkipped(input[1]) /\ NonSkipped(input[2])
    /\ BackendFailed(log[1].resp)
    /\ Len(DataRows(best.disk)) = 1

\* C2: the all-results file holds, for the records processed so far, one data
\* row per non-empty extracted link, in extraction order; a record without
\* links or with a failed search adds none.
C2_FullRowsPerLink ==
    AtRecordBoundary =>
        /\ Len(DataRows(Written(full))) = SumLinks(log)
        /\ DataRows(Written(full)) = ExpectedFull(log)

C2_Witness ==
    /\ g_pc = "done" /\ Len(log) = 2
    /\ BackendFailed(log[1].resp)
    /\ Len(ExtractedLinks(log[2].resp)) = 2
    /\ Len(log[2].resp.items) = 4
    /\ Len(DataRows(full.disk)) = 2

RowsOfCurrentWritten == g_pc \in {"flush_best", "write_full", "flush_full", "loop", "done"}

\* C3: a failed backend call leaves an empty link in the record's best-result
\* row and no all-results row, and it never ends the run: no exception of the
\* search leaves main, and a run that ends normally has searched every
\* non-skipped record.
C3_FailureIsolated ==
    /\ g_err # "SearchError"
    /\ \A k \in 1..Len(log) :
          (BackendFailed(log[k].resp) /\ (k < Len(log) \/ RowsOfCurrentWritten)) =>
              /\ Len(DataRows(Written(best))) >= k
              /\ DataRows(Written(best))[k] = <<log[k].name, log[k].query, EmptyStr>>
    /\ (log # <<>> /\ BackendFailed(log[Len(log)].resp)) =>
          /\ g_pc \notin {"write_full", "flush_full"}
          /\ Len(DataRows(Written(full))) = SumLinks(AllButLast(log))
    /\ g_pc = "done" => Len(log) = NonSkippedCount(input)

C3_Witness ==
    /\ g_pc = "done" /\ Len(log) = 2
    /\ log[1].resp.status = 200 /\ BackendFailed(log[1].resp)
    /\ ~BackendFailed(log[2].resp)
    /\ DataRows(best.disk)[1][3] = EmptyStr
    /\ DataRows(best.disk)[2][3] # EmptyStr

\* C4: when the backend call for a record starts, every row of the earlier
\* records is on disk; at any moment, also after an abrupt termination, the
\* data rows on disk are a prefix of the rows of the run and lack rows of at
\* most the record in flight.
C4_FlushedPerRecord ==
    /\ g_pc = "search" =>
          /\ DataRows(best.disk) = ExpectedBest(log)
          /\ DataRows(full.disk) = ExpectedFull(log)
          /\ DataRows(Written(best)) = ExpectedBest(log)
    /\ (best.opened /\ full.opened) =>
          /\ IsPrefix(ExpectedBest(AllButLast(log)), DataRows(best.disk))
          /\ IsPrefix(DataRows(best.disk), ExpectedBest(log))
          /\ IsPrefix(ExpectedFull(AllButLast(log)), DataRows(full.disk))
          /\ IsPrefix(DataRows(full.disk), ExpectedFull(log))

C4_Witness ==
    /\ g_pc = "killed" /\ Len(log) = 2
    /\ ExtractedLinks(log[1].resp) # <<>> /\ ExtractedLinks(log[2].resp) # <<>>
    /\ DataRows(best.disk) = ExpectedBest(AllButLast(log))
    /\ DataRows(full.disk) = ExpectedFull(AllButLast(log))

\* C8: when the input file is missing or cannot be read the run is aborted
\* before any output is produced: neither output file is created, truncated
\* or written to.
C8_FatalInputLeavesOutputs ==
    (input_state # "ok" /\ g_pc \in {"returned", "crashed", "killed", "open_in"}) =>
        best = orig_best /\ full = orig_full

(***************************************************************************)
(* SpecCont: test_continuous_operation() and the __main__ block of         *)
(* test_continuous_operation.py                                            *)
(***************************************************************************)
Engines == {"engineA", "engineB"}

GOOD_RATE == 80
EXCELLENT_RATE == 95
EXIT_INTERRUPTED == 130

InitStats ==
    [total_searches |-> 0, successful_searches |-> 0, failed_searches |-> 0,
     total_results |-> 0,
     engines_used |-> [e \in Engines |-> 0],
     suspended_engines |-> [e \in Engines |-> 0],
     response_times |-> <<>>]

\* ---- the backend's answer to one requests.get of the loop
ResultA == [isdict |-> TRUE, engines |-> <<"engineA">>]
ResultAB == [isdict |-> TRUE, engines |-> <<"engineA", "engineB">>]
ResultNotDict == [isdict |-> FALSE, engines |-> <<>>]

Entry(islist, len, hashable, name) ==
    [islist |-> islist, len |-> len, hashable |-> hashable, name |-> name]
PairA == Entry(TRUE, 2, TRUE, "engineA")         \* ["engineA", "timeout"]
SingleB == Entry(TRUE, 1, TRUE, "engineB")       \* ["engineB"]
EmptyEntry == Entry(TRUE, 0, TRUE, "engineA")    \* []
JunkEntry == Entry(FALSE, 0, TRUE, "engineA")    \* not a list
BadNameEntry == Entry(TRUE, 2, FALSE, "none")    \* [["x"], "r"]: unhashable name

SResp(exc, status, elapsed, json_ok, results_ok, results, unresp_ok, unresp) ==
    [exc |-> exc, status |-> status, elapsed |-> elapsed, json_ok |-> json_ok,
     results_ok |-> results_ok, results |-> results,
     unresp_ok |-> unresp_ok, unresp |-> unresp]

SearxResponses ==
    { SResp("timeout", 0, 0, FALSE, FALSE, <<>>, FALSE, <<>>),
      SResp("other", 0, 0, FALSE, FALSE, <<>>, FALSE, <<>>),
      SResp("none", 500, 2, FALSE, FALSE, <<>>, FALSE, <<>>),
      \* 200, body is not JSON
      SResp("none", 200, 1, FALSE, FALSE, <<>>, FALSE, <<>>),
      \* 200, well-formed
      SResp("none", 200, 1, TRUE, TRUE, <<ResultA, ResultAB>>, TRUE, <<PairA>>),
      SResp("none", 200, 2, TRUE, TRUE, <<>>, TRUE,
            <<PairA, SingleB, JunkEntry, EmptyEntry>>),
      \* 200, 'results' is null
      SResp("none", 200, 1, TRUE, FALSE, <<>>, TRUE, <<PairA>>),
      \* 200, an entry of 'results' is not an object
      SResp("none", 200, 1, TRUE, TRUE, <<ResultA, ResultNotDict>>, TRUE, <<PairA>>),
      \* 200, 'unresponsive_engines' is null
      SResp("none", 200, 1, TRUE, TRUE, <<ResultA>>, FALSE, <<>>),
      \* 200, an entry of 'unresponsive_engines' has an unhashable name
      SResp("none", 200, 1, TRUE, TRUE, <<>>, TRUE, <<PairA, BadNameEntry, PairA>>) }

RECURSIVE AddEngines(_, _)
AddEngines(used, engines) ==
    IF engines = <<>> THEN used
    ELSE AddEngines([used EXCEPT ![engines[1]] = @ + 1], Tail(engines))

\* for result in results: for engine in result.get('engines', []): ...
RECURSIVE TrackEngines(_, _)
TrackEngines(st, results) ==
    IF results = <<>> THEN [st |-> st, raised |-> FALSE]
    ELSE IF ~results[1].isdict THEN [st |-> st, raised |-> TRUE]
    ELSE TrackEngines([st EXCEPT !.engines_used = AddEngines(@, results[1].engines)],
                      Tail(results))

\* for engine_info in unresponsive: ...
RECURSIVE TrackSuspended(_, _)
TrackSuspended(st, entries) ==
    IF entries = <<>> THEN [st |-> st, raised |-> FALSE]
    ELSE LET e == entries[1] IN
         IF e.islist /\ e.len > 0
         THEN IF ~e.hashable THEN [st |-> st, raised |-> TRUE]
              ELSE TrackSuspended([st EXCEPT !.suspended_engines[e.name] = @ + 1],
                                  Tail(entries))
         ELSE TrackSuspended(st, Tail(entries))

CountFailed(st) == [st EXCEPT !.failed_searches = @ + 1]

\* the sample is never appended
AppendElapsedSkipped(st, resp) == st

\* stats['response_times'].append(elapsed)
AppendElapsed(st, resp) == [st EXCEPT !.response_times = Append(@, resp.elapsed)]

\* the if/else on response.status_code; raised = an exception leaves it
HandleResponse(st, resp) ==
    IF resp.status = 200
    THEN IF ~resp.json_ok \/ ~resp.results_ok
         THEN [st |-> st, raised |-> TRUE]
         ELSE LET s1 == [st EXCEPT !.successful_searches = @ + 1,
                                   !.total_results = @ + Len(resp.results)]
                  t == TrackEngines(s1, resp.results)
              IN IF t.raised THEN t
                 ELSE IF ~resp.unresp_ok THEN [st |-> t.st, raised |-> TRUE]
                 ELSE TrackSuspended(t.st, resp.unresp)
    ELSE [st |-> CountFailed(st), raised |-> FALSE]

\* one iteration of the for loop
SearchOnce(st, resp) ==
    LET s0 == [st EXCEPT !.total_searches = @ + 1] IN
    IF resp.exc # "none"
    THEN CountFailed(s0)
    ELSE LET h == HandleResponse(AppendElapsed(s0, resp), resp) IN
         IF h.raised THEN CountFailed(h.st) ELSE h.st

\* successful_searches / total_searches * 100, as a fraction
Rate(st) == [num |-> st.successful_searches * 100, den |-> st.total_searches]
RateAtLeast(r, threshold) == r.num >= threshold * r.den

Verdict(st) ==
    IF RateAtLeast(Rate(st), EXCELLENT_RATE) THEN "EXCELLENT"
    ELSE IF RateAtLeast(Rate(st), GOOD_RATE) THEN "GOOD"
    ELSE "WARNING"

\* exit status with '>' in place of '>='
ExitStatusStrict(st) == IF Rate(st).num > GOOD_RATE * Rate(st).den THEN 0 ELSE 1

\* sys.exit(0 if success_rate >= 80 else 1)
ExitStatus(st) == IF RateAtLeast(Rate(st), GOOD_RATE) THEN 0 ELSE 1

\* ---- what happened to an item, read off the backend's answer
Received(resp) == resp.exc = "none"

RaisesAfterResponse(resp) ==
    /\ resp.exc = "none" /\ resp.status = 200
    /\ \/ ~resp.json_ok
       \/ ~resp.results_ok
       \/ \E k \in 1..Len(resp.results) : ~resp.results[k].isdict
       \/ ~resp.unresp_ok
       \/ \E k \in 1..Len(resp.unresp) :
             resp.unresp[k].islist /\ resp.unresp[k].len > 0 /\ ~resp.unresp[k].hashable

EndsInHandler(resp) == resp.exc # "none" \/ RaisesAfterResponse(resp)

HandledCleanly(resp) == resp.exc = "none" /\ resp.status = 200 /\ ~RaisesAfterResponse(resp)

NamingCount(entries, e) ==
    Cardinality({ k \in 1..Len(entries) :
                    entries[k].islist /\ entries[k].len > 0 /\ entries[k].name = e })

InitCont ==
    /\ c_pc = "loop"
    /\ num_searches \in 0..MaxSearches
    /\ i = 0
    /\ stats = InitStats
    /\ success_rate = <<>> /\ exit_code = -1 /\ verdict = "none" /\ c_err = "none"
    /\ h_last = <<>> /\ h_received = 0 /\ h_handler = 0
    /\ h_pairs = [e \in Engines |-> 0]
    /\ NormIdle /\ GrantIdle

\* one item of the loop: request, classification, statistics
SearchItem(resp) ==
    /\ c_pc = "loop"
    /\ i < num_searches
    /\ stats' = SearchOnce(stats, resp)
    /\ i' = i + 1
    /\ h_last' = resp
    /\ h_received' = h_received + (IF Received(resp) THEN 1 ELSE 0)
    /\ h_handler' = h_handler + (IF EndsInHandler(resp) THEN 1 ELSE 0)
    /\ h_pairs' = [e \in Engines |->
                     h_pairs[e] + (IF HandledCleanly(resp)
                                   THEN NamingCount(resp.unresp, e) ELSE 0)]
    /\ UNCHANGED <<c_pc, num_searches, success_rate, exit_code, verdict, c_err,
                   n_vars, g_vars>>

\* the summary and the final verdict; the first division raises when
\* total_searches is 0
Summary ==
    /\ c_pc = "loop"
    /\ i >= num_searches
    /\ IF stats.total_searches = 0
       THEN /\ c_err' = "ZeroDivisionError"
            /\ c_pc' = "raised"
            /\ UNCHANGED <<success_rate, verdict>>
       ELSE /\ success_rate' = Rate(stats)
            /\ verdict' = Verdict(stats)
            /\ c_pc' = "returned"
            /\ UNCHANGED c_err
    /\ UNCHANGED <<num_searches, i, stats, exit_code,
                   h_last, h_received, h_handler, h_pairs, n_vars, g_vars>>

\* sys.exit(0 if success_rate >= 80 else 1)
ExitNormal ==
    /\ c_pc = "returned"
    /\ success_rate' = Rate(stats)
    /\ exit_code' = ExitStatus(stats)
    /\ c_pc' = "exited"
    /\ UNCHANGED <<num_searches, i, stats, verdict, c_err,
                   h_last, h_received, h_handler, h_pairs, n_vars, g_vars>>

\* except Exception: sys.exit(1)
ExitFatal ==
    /\ c_pc = "raised"
    /\ exit_code' = 1
    /\ c_pc' = "exited"
    /\ UNCHANGED <<num_searches, i, stats, success_rate, verdict, c_err,
                   h_last, h_received, h_handler, h_pairs, n_vars, g_vars>>

\* except KeyboardInterrupt: sys.exit(130)
Interrupt ==
    /\ c_pc = "loop"
    /\ c_err' = "KeyboardInterrupt"
    /\ exit_code' = EXIT_INTERRUPTED
    /\ c_pc' = "exited"
    /\ UNCHANGED <<num_searches, i, stats, success_rate, verdict,
                   h_last, h_received, h_handler, h_pairs, n_vars, g_vars>>

NextCont ==
    \/ \E resp \in SearxResponses : SearchItem(resp)
    \/ Summary
    \/ ExitNormal
    \/ ExitFatal
    \/ Interrupt

SpecCont == InitCont /\ [][NextCont]_vars

(***************************************************************************)
(* Properties of the continuous-operation run                              *)
(***************************************************************************)
\* C5: an item that ends in an except handler (timeout or any other
\* exception) is counted as failed and has no entry in response_times.
C5_NoSampleOnException ==
    /\ stats.failed_searches >= h_handler
    /\ Len(stats.response_times) <= stats.total_searches - h_handler

\* C5 (amended): an item whose request itself raised (timeout or other
\* exception, no response) is counted as failed and has no entry in
\* response_times; response_times has one entry per received response, also
\* when handling that response raised afterwards.
C5_SamplePerResponse ==
    /\ stats.failed_searches >= h_handler
    /\ Len(stats.response_times) = h_received
    /\ (i > 0 /\ ~Received(h_last)) => Len(stats.response_times) < i
    /\ (i > 0 /\ Received(h_last)) =>
          /\ stats.response_times # <<>>
          /\ stats.response_times[Len(stats.response_times)] = h_last.elapsed

C5_Witness ==
    /\ c_pc = "exited" /\ c_err = "none"
    /\ stats.total_searches = 2 /\ h_handler = 2 /\ h_received = 1
    /\ h_last.exc = "timeout"
    /\ Len(stats.response_times) = 1
    /\ stats.failed_searches = 2

\* C7: the reported success rate is successes/total*100, the exit status is 1
\* exactly when that rate is below 80 and 0 otherwise, and an interrupted run
\* exits with 130 (runs with at least one search).
C7_ExitStatus ==
    c_pc = "exited" =>
        IF c_err = "KeyboardInterrupt" THEN exit_code = 130
        ELSE stats.total_searches > 0 =>
               /\ success_rate.num * stats.total_searches
                      = 100 * stats.successful_searches * success_rate.den
               /\ success_rate.den > 0
               /\ exit_code = 1 <=>
                      stats.successful_searches * 100 < 80 * stats.total_searches
               /\ exit_code = 0 <=>
                      stats.successful_searches * 100 >= 80 * stats.total_searches

C7_Witness ==
    /\ c_pc = "exited" /\ c_err = "none"
    /\ stats.total_searches = 5 /\ stats.successful_searches = 4
    /\ stats.failed_searches = 1 /\ h_last.status = 500
    /\ exit_code = 0

\* C9: the suspension count of an engine equals the number of unresponsive
\* entries naming it in the successfully handled queries.
C9_SuspensionCount ==
    \A e \in Engines : stats.suspended_engines[e] = h_pairs[e]

\* C10: every item is classified exactly once: successes + failures = total
\* after each item and at the end of the run.
C10_ClassifiedOnce ==
    stats.successful_searches + stats.failed_searches = stats.total_searches

====
